---- MODULE Spec2Model ----
(***************************************************************************)
(* HD sequential address discovery (HDSequentialDiscovery.ts).             *)
(*                                                                         *)
(* One run of HDSequentialDiscovery.discover is modelled at the grain of   *)
(* its suspension points: every action is the completion of one awaited    *)
(* call (Bip32Account.deriveAddress or                                     *)
(* ChainHistoryProvider.transactionsByAddresses) together with the         *)
(* synchronous code that runs up to the next await.  The provider is a     *)
(* fixed snapshot: history holds the addresses known to have transactions, *)
(* and the history of an address in undetermined is settled, once and for  *)
(* all, by the first query about it.  Every awaited call may also reject.  *)
(* trace is the log of the calls the run has made.                         *)
(***************************************************************************)
EXTENDS Integers, Sequences, FiniteSets, TLC

\* HDSequentialDiscovery.ts:7
STAKE_KEY_INDEX_LOOKAHEAD == 5

\* ---- bounds of the model ------------------------------------------------
\* the caller's lookAheadCount ranges over 0..MaxLookAhead
MaxLookAhead == 2
\* the provider may hold history for stake indices 0..MaxStakeUsed (payment index 0)
MaxStakeUsed == 1
\* the provider may hold history for payment indices 0..MaxPayUsed (stake index 0)
MaxPayUsed == 2
\* SpecGap: the caller's lookAheadCount, and the payment indices that may be used
GapLookAhead == 3
GapPayUsed == 10
\* SpecTwo: the larger of the two lookAheadCounts, and the stake and payment
\* indices that may be used
TwoLookAhead == 1
TwoStakeUsed == 1
TwoPayUsed == 1
\* SpecCalls: the caller's lookAheadCount goes up to CallsLookAhead, and the
\* provider may hold history for stake indices 0..CallsStakeUsed and payment
\* indices 0..CallsPayUsed
CallsLookAhead == 1
CallsStakeUsed == 1
CallsPayUsed == 2
\* SpecLive: the caller's lookAheadCount goes up to LiveLookAhead, and the
\* provider may hold history for stake indices 0..LiveStakeUsed and payment
\* indices 0..LivePayUsed
LiveLookAhead == 1
LiveStakeUsed == 1
LivePayUsed == 3
\* SpecBlockfrost: the number of getBlockfrostClient calls
MaxCalls == 3
\* SpecMerge: the longest stake-chain and payment-chain list handed to the merge
MergeLen == 2

VARIABLES
  account,              \* the Bip32Account handed to discover (what its addresses look like)
  lookAheadCount,       \* this.#lookAheadCount
  history,              \* provider snapshot: encoded addresses that have transactions
  undetermined,         \* encoded addresses whose history no query has settled yet
  pc,                   \* the await the run is suspended at, or "returned" / "failed"
  firstAddresses,       \* discover: firstAddresses
  firstInternalAddress, \* discover: firstInternalAddress
  pass,                 \* which discoverAddresses call is running: "stake" / "payment"
  currentGap,           \* discoverAddresses: currentGap
  currentIndex,         \* discoverAddresses: currentIndex
  addresses,            \* discoverAddresses: addresses
  externalAddress,      \* discoverAddresses: externalAddress
  internalAddress,      \* discoverAddresses: internalAddress
  externalHasTx,        \* discoverAddresses: externalHasTx
  stakeKeyAddresses,    \* discover: stakeKeyAddresses
  paymentKeyAddresses,  \* discover: paymentKeyAddresses
  uniqAddresses,        \* discover: addresses (the uniqBy result)
  result,               \* the list discover resolved with
  error,                \* the error discover rejected with
  trace,                \* log of the calls made so far, in order
  other,                \* a second discover run, suspended at one of its awaits (or NoRun)
  blockfrostClient,     \* BlockfrostClientFactory: the module-level blockfrostClient
  env,                  \* BlockfrostClientFactory: process.env
  constructed,          \* BlockfrostClientFactory: the BlockfrostClient instances constructed
  outcomes              \* BlockfrostClientFactory: what each getBlockfrostClient call did

vars == <<account, lookAheadCount, history, undetermined, pc, firstAddresses, firstInternalAddress,
          pass, currentGap, currentIndex, addresses, externalAddress, internalAddress,
          externalHasTx, stakeKeyAddresses, paymentKeyAddresses, uniqAddresses,
          result, error, trace, other, blockfrostClient, env, constructed, outcomes>>

\* what a step of one discover run leaves alone
outside == <<other, blockfrostClient, env, constructed, outcomes>>

\* ---- addresses ------------------------------------------------------------

External == "External"
Internal == "Internal"

\* Cardano.AddressType values that getPaymentCredential accepts
EnterpriseKinds == {"EnterpriseKey", "EnterpriseScript"}
BaseKinds == {"BasePaymentKeyStakeKey", "BasePaymentKeyStakeScript",
              "BasePaymentScriptStakeScript", "BasePaymentScriptStakeKey"}

NoCredential == [type |-> "None", hash |-> <<"none", "none", 0>>]
NoPaymentAddress == [kind |-> "None", networkId |-> 0,
                     payment |-> NoCredential, stake |-> NoCredential]
NoAddress == [type |-> "None", index |-> 0, networkId |-> 0,
              address |-> NoPaymentAddress, stakeKeyDerivationPath |-> [index |-> 0]]
NoError == [name |-> "None", call |-> 0]

\* The encoded address string, as the credentials it encodes.
EncodeAddress(kind, networkId, payment, stake) ==
  [kind |-> kind, networkId |-> networkId, payment |-> payment, stake |-> stake]

\* Bip32Account.deriveAddress(paymentKeyDerivationPath, stakeKeyDerivationIndex)
DeriveAddress(acct, path, stakeKeyDerivationIndex) ==
  [type |-> path.type,
   index |-> path.index,
   networkId |-> acct.networkId,
   address |-> EncodeAddress(acct.kind, acct.networkId,
                 [type |-> "KeyHash", hash |-> <<"payment", path.type, path.index>>],
                 IF acct.kind \in {"EnterpriseKey", "EnterpriseScript"}
                   THEN [type |-> "None", hash |-> <<"none", "none", 0>>]
                   ELSE [type |-> "KeyHash",
                         hash |-> <<"stake", "Stake", stakeKeyDerivationIndex>>]),
   stakeKeyDerivationPath |-> [index |-> stakeKeyDerivationIndex]]

\* getPaymentCredential: the credential, or NoCredential where the code throws
GetPaymentCredential(userAddress) ==
  IF userAddress.kind \in EnterpriseKinds THEN userAddress.payment
  ELSE IF userAddress.kind \in BaseKinds THEN userAddress.payment
  ELSE NoCredential

\* Serialization.Script.fromCore(programmableLogicBase).hash()
ScriptHash == <<"script", "programmableLogicBase", 0>>

\* variant: the stake credential of the input is carried over
MakeProgrammableTokenAddressKeepStake(userAddress, networkId) ==
  EncodeAddress("BasePaymentScriptStakeKey", networkId,
                [type |-> "ScriptHash", hash |-> ScriptHash],
                userAddress.stake)

\* makeProgrammableTokenAddress
MakeProgrammableTokenAddress(userAddress, networkId) ==
  EncodeAddress("BasePaymentScriptStakeKey", networkId,
                [type |-> "ScriptHash", hash |-> ScriptHash],
                GetPaymentCredential(userAddress))

\* ---- the provider -----------------------------------------------------------

\* ChainHistoryProvider.transactionsByAddresses on the snapshot
TransactionsByAddresses(snapshot, request) ==
  [totalResultCount |->
     Cardinality({i \in 1..Len(request.addresses) : request.addresses[i] \in snapshot})]

\* the snapshots the provider may turn out to hold once it is asked about address
Settled(address) ==
  IF address \in undetermined THEN {history, history \cup {address}} ELSE {history}

\* addressHasTx: the request it sends
AddressHasTxRequest(address) ==
  [addresses |-> <<address.address>>, pagination |-> [limit |-> 1, startAt |-> 0]]

\* variant: one transaction is not taken as history
AddressHasTxAboveOne(address, snapshot) ==
  TransactionsByAddresses(snapshot, AddressHasTxRequest(address)).totalResultCount > 1

\* addressHasTx: its result
AddressHasTx(address, snapshot) ==
  TransactionsByAddresses(snapshot, AddressHasTxRequest(address)).totalResultCount > 0

\* ---- pure helpers of discover ----------------------------------------------

\* variant: the stake-chain callback without the offset of 1
GetDeriveAddressArgsNoOffset(p, index, type) ==
  IF p = "stake"
    THEN [paymentKeyDerivationPath |-> [index |-> 0, type |-> type],
          stakeKeyDerivationIndex |-> index]
    ELSE [paymentKeyDerivationPath |-> [index |-> index + 1, type |-> type],
          stakeKeyDerivationIndex |-> 0]

\* the getDeriveAddressArgs callbacks of the two discoverAddresses calls
GetDeriveAddressArgs(p, index, type) ==
  IF p = "stake"
    THEN [paymentKeyDerivationPath |-> [index |-> 0, type |-> type],
          stakeKeyDerivationIndex |-> index + 1]
    ELSE [paymentKeyDerivationPath |-> [index |-> index + 1, type |-> type],
          stakeKeyDerivationIndex |-> 0]

\* variant: the stake-chain pass is given the caller's lookAheadCount
PassLookAheadCaller(p) == lookAheadCount

\* the lookAheadCount argument of the two discoverAddresses calls
PassLookAhead(p) ==
  IF p = "stake" THEN STAKE_KEY_INDEX_LOOKAHEAD ELSE lookAheadCount

\* variant: the last occurrence of each address is kept
RECURSIVE UniqByLast(_)
UniqByLast(list) ==
  IF list = <<>> THEN <<>>
  ELSE LET rest == UniqByLast(SubSeq(list, 2, Len(list)))
           head == list[1]
       IN IF \E i \in 1..Len(rest) : rest[i].address = head.address
            THEN rest
            ELSE <<head>> \o rest

\* lodash uniqBy(list, 'address'): first occurrence of each address, in order
RECURSIVE UniqBy(_)
UniqBy(list) ==
  IF list = <<>> THEN <<>>
  ELSE LET init == UniqBy(SubSeq(list, 1, Len(list) - 1))
           last == list[Len(list)]
       IN IF \E i \in 1..Len(init) : init[i].address = last.address
            THEN init
            ELSE Append(init, last)

\* variant: the comparator with its operands swapped
CompareAddressesSwapped(a, b) ==
  IF b.index - a.index # 0
    THEN b.index - a.index
    ELSE b.stakeKeyDerivationPath.index - a.stakeKeyDerivationPath.index

\* the comparator of the final sort
CompareAddresses(a, b) ==
  IF a.index - b.index # 0
    THEN a.index - b.index
    ELSE a.stakeKeyDerivationPath.index - b.stakeKeyDerivationPath.index

\* Array.prototype.sort is stable: x goes behind every element that does not
\* compare greater than it
RECURSIVE InsertSorted(_, _)
InsertSorted(sorted, x) ==
  IF sorted = <<>> THEN <<x>>
  ELSE IF CompareAddresses(sorted[Len(sorted)], x) <= 0
    THEN Append(sorted, x)
    ELSE Append(InsertSorted(SubSeq(sorted, 1, Len(sorted) - 1), x), sorted[Len(sorted)])

RECURSIVE SortAddresses(_)
SortAddresses(list) ==
  IF list = <<>> THEN <<>>
  ELSE InsertSorted(SortAddresses(SubSeq(list, 1, Len(list) - 1)), list[Len(list)])

\* variant: the base index is taken from the first element of the list
ProgTokenAddressesFromFirst(uniq) ==
  LET lastIdx == uniq[1].index
  IN [i \in 1..Len(uniq) |->
        [uniq[i] EXCEPT !.index = lastIdx + (i - 1) + 1,
                        !.address = MakeProgrammableTokenAddress(uniq[i].address,
                                                                 uniq[i].networkId)]]

\* discover, lines 151-161: the programmable entries of the deduplicated list
ProgTokenAddresses(uniq) ==
  LET lastIdx == uniq[Len(uniq)].index
  IN [i \in 1..Len(uniq) |->
        [uniq[i] EXCEPT !.index = lastIdx + (i - 1) + 1,
                        !.address = MakeProgrammableTokenAddress(uniq[i].address,
                                                                 uniq[i].networkId)]]

\* discover, lines 151-167: what the synchronous tail returns
MergeAndSort(uniq) ==
  SortAddresses(uniq \o ProgTokenAddresses(uniq))

\* ---- the call log -------------------------------------------------------------

\* a rejection raised by the call that is about to be logged
CallError(name) == [name |-> name, call |-> Len(trace) + 1]

\* a logged deriveAddress call
DeriveCall(args, rejection) ==
  [op |-> "deriveAddress", path |-> args.paymentKeyDerivationPath,
   stake |-> args.stakeKeyDerivationIndex, pass |-> pass, error |-> rejection]

\* a logged transactionsByAddresses call: the request sent, the grouped address
\* it was made for, and whether addressHasTx took the count as history
QueryCall(address, rejection, hasTx) ==
  [op |-> "transactionsByAddresses", path |-> [index |-> address.index, type |-> address.type],
   stake |-> address.stakeKeyDerivationPath.index, request |-> AddressHasTxRequest(address),
   pass |-> pass, error |-> rejection, hasTx |-> hasTx]

\* the logged call was not rejected
Ok(e) == e.error = NoError

\* ---- initial states -------------------------------------------------------

\* the accounts: one deriving base addresses, one deriving addresses of a kind
\* getPaymentCredential does not support
Accounts == {[kind |-> "BasePaymentKeyStakeKey", networkId |-> 0],
             [kind |-> "PointerKey", networkId |-> 0]}

\* the derivation triples the provider may hold history for
Usable(maxStake, maxPay, types) ==
  {t \in (0..maxPay) \X types \X (0..maxStake) : t[1] = 0 \/ t[3] = 0}

Encoded(acct, triples) ==
  {DeriveAddress(acct, [index |-> t[1], type |-> t[2]], t[3]).address : t \in triples}

InitRun ==
  /\ pc = "firstExternal"
  /\ firstAddresses = <<>>
  /\ firstInternalAddress = NoAddress
  /\ pass = "none"
  /\ currentGap = 0
  /\ currentIndex = 0
  /\ addresses = <<>>
  /\ externalAddress = NoAddress
  /\ internalAddress = NoAddress
  /\ externalHasTx = FALSE
  /\ stakeKeyAddresses = <<>>
  /\ paymentKeyAddresses = <<>>
  /\ uniqAddresses = <<>>
  /\ result = <<>>
  /\ error = NoError
  /\ trace = <<>>

\* no second run
NoRun == [pc |-> "none"]

\* BlockfrostClientFactory.ts:9, before any call
Undefined == [id |-> 0]
NoEnv == [BLOCKFROST_CUSTOM_BACKEND_URL |-> "", BLOCKFROST_API_KEY |-> "", NETWORK |-> ""]

InitOutside ==
  /\ other = NoRun
  /\ blockfrostClient = Undefined
  /\ env = NoEnv
  /\ constructed = <<>>
  /\ outcomes = <<>>

Init ==
  /\ InitOutside
  /\ account \in Accounts
  /\ lookAheadCount \in 0..MaxLookAhead
  /\ history = {}
  /\ undetermined = Encoded(account, Usable(MaxStakeUsed, MaxPayUsed, {External, Internal}))
  /\ InitRun

\* ---- discover: the initial step (lines 117-121) ------------------------------

FirstExternalArgs == [paymentKeyDerivationPath |-> [index |-> 0, type |-> External],
                      stakeKeyDerivationIndex |-> 0]
FirstInternalArgs == [paymentKeyDerivationPath |-> [index |-> 0, type |-> Internal],
                      stakeKeyDerivationIndex |-> 0]

\* line 117
FirstExternalDerived ==
  /\ pc = "firstExternal"
  /\ firstAddresses' = <<DeriveAddress(account, FirstExternalArgs.paymentKeyDerivationPath, 0)>>
  /\ trace' = Append(trace, DeriveCall(FirstExternalArgs, NoError))
  /\ pc' = "firstInternal"
  /\ UNCHANGED outside
  /\ UNCHANGED <<account, lookAheadCount, history, undetermined, firstInternalAddress, pass, currentGap,
                 currentIndex, addresses, externalAddress, internalAddress, externalHasTx,
                 stakeKeyAddresses, paymentKeyAddresses, uniqAddresses, result, error>>

\* line 118
FirstInternalDerived ==
  /\ pc = "firstInternal"
  /\ firstInternalAddress' = DeriveAddress(account, FirstInternalArgs.paymentKeyDerivationPath, 0)
  /\ trace' = Append(trace, DeriveCall(FirstInternalArgs, NoError))
  /\ pc' = "firstHasTx"
  /\ UNCHANGED outside
  /\ UNCHANGED <<account, lookAheadCount, history, undetermined, firstAddresses, pass, currentGap,
                 currentIndex, addresses, externalAddress, internalAddress, externalHasTx,
                 stakeKeyAddresses, paymentKeyAddresses, uniqAddresses, result, error>>

\* variant: the internal address is pushed whether or not it has history
KeepFirstInternalAlways(first, internal, hasTx) == Append(first, internal)

\* variant: the internal address is put in front of the list instead of pushed
KeepFirstInternalInFront(first, internal, hasTx) ==
  IF hasTx THEN <<internal>> \o first ELSE first

\* lines 119-121: the first internal address is pushed if it has history
KeepFirstInternal(first, internal, hasTx) ==
  IF hasTx THEN Append(first, internal) ELSE first

\* lines 119-123: the first internal address is kept if it has history; the
\* stake-chain pass starts (lines 48-56, up to its first await)
FirstInternalHasTx ==
  /\ pc = "firstHasTx"
  /\ \E snapshot \in Settled(firstInternalAddress.address) :
       LET hasTx == AddressHasTx(firstInternalAddress, snapshot)
       IN /\ history' = snapshot
          /\ firstAddresses' = KeepFirstInternal(firstAddresses, firstInternalAddress, hasTx)
          /\ trace' = Append(trace, QueryCall(firstInternalAddress, NoError, hasTx))
  /\ undetermined' = undetermined \ {firstInternalAddress.address}
  /\ pass' = "stake"
  /\ currentGap' = 0
  /\ currentIndex' = 0
  /\ addresses' = <<>>
  /\ pc' = "scanExternal"
  /\ UNCHANGED outside
  /\ UNCHANGED <<account, lookAheadCount, firstInternalAddress, externalAddress,
                 internalAddress, externalHasTx, stakeKeyAddresses, paymentKeyAddresses,
                 uniqAddresses, result, error>>

\* ---- discoverAddresses (lines 36-82) -------------------------------------------

\* lines 56-59
ScanExternalDerived ==
  /\ pc = "scanExternal"
  /\ LET args == GetDeriveAddressArgs(pass, currentIndex, External)
     IN /\ externalAddress' = DeriveAddress(account, args.paymentKeyDerivationPath,
                                            args.stakeKeyDerivationIndex)
        /\ trace' = Append(trace, DeriveCall(args, NoError))
  /\ pc' = "scanInternal"
  /\ UNCHANGED outside
  /\ UNCHANGED <<account, lookAheadCount, history, undetermined, firstAddresses, firstInternalAddress, pass,
                 currentGap, currentIndex, addresses, internalAddress, externalHasTx,
                 stakeKeyAddresses, paymentKeyAddresses, uniqAddresses, result, error>>

\* lines 61-64
ScanInternalDerived ==
  /\ pc = "scanInternal"
  /\ LET args == GetDeriveAddressArgs(pass, currentIndex, Internal)
     IN /\ internalAddress' = DeriveAddress(account, args.paymentKeyDerivationPath,
                                            args.stakeKeyDerivationIndex)
        /\ trace' = Append(trace, DeriveCall(args, NoError))
  /\ pc' = "scanExternalHasTx"
  /\ UNCHANGED outside
  /\ UNCHANGED <<account, lookAheadCount, history, undetermined, firstAddresses, firstInternalAddress, pass,
                 currentGap, currentIndex, addresses, externalAddress, externalHasTx,
                 stakeKeyAddresses, paymentKeyAddresses, uniqAddresses, result, error>>

\* variant of line 66: the Internal address is asked about first
ScanExternalHasTxInternalFirst ==
  /\ pc = "scanExternalHasTx"
  /\ \E snapshot \in Settled(internalAddress.address) :
       /\ history' = snapshot
       /\ externalHasTx' = AddressHasTx(internalAddress, snapshot)
  /\ undetermined' = undetermined \ {internalAddress.address}
  /\ trace' = Append(trace, QueryCall(internalAddress, NoError, externalHasTx'))
  /\ pc' = "scanInternalHasTx"
  /\ UNCHANGED outside
  /\ UNCHANGED <<account, lookAheadCount, firstAddresses, firstInternalAddress, pass,
                 currentGap, currentIndex, addresses, externalAddress, internalAddress,
                 stakeKeyAddresses, paymentKeyAddresses, uniqAddresses, result, error>>

\* line 66
ScanExternalHasTx ==
  /\ pc = "scanExternalHasTx"
  /\ \E snapshot \in Settled(externalAddress.address) :
       /\ history' = snapshot
       /\ externalHasTx' = AddressHasTx(externalAddress, snapshot)
  /\ undetermined' = undetermined \ {externalAddress.address}
  /\ trace' = Append(trace, QueryCall(externalAddress, NoError, externalHasTx'))
  /\ pc' = "scanInternalHasTx"
  /\ UNCHANGED outside
  /\ UNCHANGED <<account, lookAheadCount, firstAddresses, firstInternalAddress, pass,
                 currentGap, currentIndex, addresses, externalAddress, internalAddress,
                 stakeKeyAddresses, paymentKeyAddresses, uniqAddresses, result, error>>

\* variant: a hit on either kind pushes both addresses of the position
PushFoundBoth(list, external, externalFound, internal, internalFound) ==
  IF externalFound \/ internalFound THEN Append(Append(list, external), internal) ELSE list

\* lines 69-70: the pushes of one position
PushFound(list, external, externalFound, internal, internalFound) ==
  LET withExternal == IF externalFound THEN Append(list, external) ELSE list
  IN IF internalFound THEN Append(withExternal, internal) ELSE withExternal

\* variant: the gap is reset only when both kinds have history
NextGapBoth(gap, externalFound, internalFound) ==
  IF externalFound /\ internalFound THEN 0 ELSE gap + 1

\* variant: a hit does not reset the gap
NextGapNoReset(gap, externalFound, internalFound) == gap + 1

\* lines 72-76: the gap after one position
NextGap(gap, externalFound, internalFound) ==
  IF externalFound \/ internalFound THEN 0 ELSE gap + 1

\* variant: the loop stops when the gap reaches lookAheadCount
ScanContinuesBelow(gap, lookAhead) == gap < lookAhead

\* line 52: the loop condition
ScanContinues(gap, lookAhead) == gap <= lookAhead

\* lines 67-79 and the loop test of line 52
ScanInternalHasTx ==
  /\ pc = "scanInternalHasTx"
  /\ \E snapshot \in Settled(internalAddress.address) :
       LET internalHasTx == AddressHasTx(internalAddress, snapshot)
       IN /\ history' = snapshot
          /\ addresses' = PushFound(addresses, externalAddress, externalHasTx,
                                    internalAddress, internalHasTx)
          /\ currentGap' = NextGap(currentGap, externalHasTx, internalHasTx)
          /\ trace' = Append(trace, QueryCall(internalAddress, NoError, internalHasTx))
  /\ undetermined' = undetermined \ {internalAddress.address}
  /\ currentIndex' = currentIndex + 1
  /\ pc' = IF ScanContinues(currentGap', PassLookAhead(pass)) THEN "scanExternal"
                                                              ELSE "scanReturn"
  /\ UNCHANGED outside
  /\ UNCHANGED <<account, lookAheadCount, firstAddresses, firstInternalAddress, pass,
                 externalAddress, internalAddress, externalHasTx, stakeKeyAddresses,
                 paymentKeyAddresses, uniqAddresses, result, error>>

\* line 81 of the stake-chain pass, then lines 123 and 137: the payment-chain pass starts
StakeScanReturn ==
  /\ pc = "scanReturn"
  /\ pass = "stake"
  /\ stakeKeyAddresses' = addresses
  /\ pass' = "payment"
  /\ currentGap' = 0
  /\ currentIndex' = 0
  /\ addresses' = <<>>
  /\ pc' = "scanExternal"
  /\ UNCHANGED outside
  /\ UNCHANGED <<account, lookAheadCount, history, undetermined, firstAddresses, firstInternalAddress,
                 externalAddress, internalAddress, externalHasTx, paymentKeyAddresses,
                 uniqAddresses, result, error, trace>>

\* variant: the payment-chain results are put before the stake-chain results
DiscoveredPaymentFirst(first, stakeChain, paymentChain) == first \o paymentChain \o stakeChain

\* the concatenation handed to uniqBy (line 151)
Discovered(first, stakeChain, paymentChain) == first \o stakeChain \o paymentChain

\* line 81 of the payment-chain pass, then lines 151-167
PaymentScanReturn ==
  /\ pc = "scanReturn"
  /\ pass = "payment"
  /\ paymentKeyAddresses' = addresses
  /\ uniqAddresses' = UniqBy(Discovered(firstAddresses, stakeKeyAddresses, addresses))
  /\ IF \E i \in 1..Len(uniqAddresses') :
          GetPaymentCredential(uniqAddresses'[i].address) = NoCredential
       THEN /\ pc' = "failed"
            /\ error' = [name |-> "Unsupported address type", call |-> 0]
            /\ result' = result
       ELSE /\ pc' = "returned"
            /\ result' = MergeAndSort(uniqAddresses')
            /\ error' = error
  /\ UNCHANGED outside
  /\ UNCHANGED <<account, lookAheadCount, history, undetermined, firstAddresses, firstInternalAddress, pass,
                 currentGap, currentIndex, addresses, externalAddress, internalAddress,
                 externalHasTx, stakeKeyAddresses, trace>>

\* ---- rejected calls --------------------------------------------------------------

\* the arguments of the deriveAddress call the run is suspended at
PendingDeriveArgs ==
  IF pc = "firstExternal" THEN FirstExternalArgs
  ELSE IF pc = "firstInternal" THEN FirstInternalArgs
  ELSE IF pc = "scanExternal" THEN GetDeriveAddressArgs(pass, currentIndex, External)
  ELSE GetDeriveAddressArgs(pass, currentIndex, Internal)

\* the address of the transactionsByAddresses call the run is suspended at
PendingQueryAddress ==
  IF pc = "firstHasTx" THEN firstInternalAddress
  ELSE IF pc = "scanExternalHasTx" THEN externalAddress
  ELSE internalAddress

\* an awaited deriveAddress rejects: discover rejects with its error
DeriveAddressFails ==
  /\ pc \in {"firstExternal", "firstInternal", "scanExternal", "scanInternal"}
  /\ trace' = Append(trace, DeriveCall(PendingDeriveArgs, CallError("DerivationError")))
  /\ error' = CallError("DerivationError")
  /\ pc' = "failed"
  /\ UNCHANGED outside
  /\ UNCHANGED <<account, lookAheadCount, history, undetermined, firstAddresses, firstInternalAddress, pass,
                 currentGap, currentIndex, addresses, externalAddress, internalAddress,
                 externalHasTx, stakeKeyAddresses, paymentKeyAddresses, uniqAddresses, result>>

\* variant: the rejection is caught and what was found so far is returned
AddressHasTxFailsPartial ==
  /\ pc \in {"firstHasTx", "scanExternalHasTx", "scanInternalHasTx"}
  /\ trace' = Append(trace, QueryCall(PendingQueryAddress, CallError("ProviderError"), FALSE))
  /\ result' = firstAddresses \o stakeKeyAddresses \o addresses
  /\ pc' = "returned"
  /\ UNCHANGED outside
  /\ UNCHANGED <<account, lookAheadCount, history, undetermined, firstAddresses,
                 firstInternalAddress, pass, currentGap, currentIndex, addresses,
                 externalAddress, internalAddress, externalHasTx, stakeKeyAddresses,
                 paymentKeyAddresses, uniqAddresses, error>>

\* variant: a rejected query is made again
AddressHasTxFailsRetried ==
  /\ pc \in {"firstHasTx", "scanExternalHasTx", "scanInternalHasTx"}
  /\ trace' = Append(trace, QueryCall(PendingQueryAddress, CallError("ProviderError"), FALSE))
  /\ UNCHANGED outside
  /\ UNCHANGED <<account, lookAheadCount, history, undetermined, pc, firstAddresses,
                 firstInternalAddress, pass, currentGap, currentIndex, addresses,
                 externalAddress, internalAddress, externalHasTx, stakeKeyAddresses,
                 paymentKeyAddresses, uniqAddresses, result, error>>

\* an awaited transactionsByAddresses rejects: discover rejects with its error
AddressHasTxFails ==
  /\ pc \in {"firstHasTx", "scanExternalHasTx", "scanInternalHasTx"}
  /\ trace' = Append(trace, QueryCall(PendingQueryAddress, CallError("ProviderError"), FALSE))
  /\ error' = CallError("ProviderError")
  /\ pc' = "failed"
  /\ UNCHANGED outside
  /\ UNCHANGED <<account, lookAheadCount, history, undetermined, firstAddresses, firstInternalAddress, pass,
                 currentGap, currentIndex, addresses, externalAddress, internalAddress,
                 externalHasTx, stakeKeyAddresses, paymentKeyAddresses, uniqAddresses, result>>

Next ==
  \/ FirstExternalDerived
  \/ FirstInternalDerived
  \/ FirstInternalHasTx
  \/ ScanExternalDerived
  \/ ScanInternalDerived
  \/ ScanExternalHasTx
  \/ ScanInternalHasTx
  \/ StakeScanReturn
  \/ PaymentScanReturn
  \/ DeriveAddressFails
  \/ AddressHasTxFails

Spec == Init /\ [][Next]_vars

\* The gap scenario: external payment-chain usage only, lookAheadCount = GapLookAhead.
InitGap ==
  /\ InitOutside
  /\ account = [kind |-> "BasePaymentKeyStakeKey", networkId |-> 0]
  /\ lookAheadCount = GapLookAhead
  /\ history \in SUBSET Encoded(account, Usable(0, GapPayUsed, {External}))
  /\ undetermined = {}
  /\ InitRun

SpecGap == InitGap /\ [][Next]_vars

\* The runs whose call logs are examined call by call.
InitCalls ==
  /\ InitOutside
  /\ account = [kind |-> "BasePaymentKeyStakeKey", networkId |-> 0]
  /\ lookAheadCount \in 0..CallsLookAhead
  /\ history = {}
  /\ undetermined = Encoded(account, Usable(CallsStakeUsed, CallsPayUsed, {External, Internal}))
  /\ InitRun

SpecCalls == InitCalls /\ [][Next]_vars


\* ---- a run in which every awaited call resolves ----------------------------------

\* the steps that follow an awaited call that resolved
Resumed ==
  \/ FirstExternalDerived
  \/ FirstInternalDerived
  \/ FirstInternalHasTx
  \/ ScanExternalDerived
  \/ ScanInternalDerived
  \/ ScanExternalHasTx
  \/ ScanInternalHasTx
  \/ StakeScanReturn

\* the steps of a run no call of which is rejected
NextLive == Resumed \/ PaymentScanReturn

\* control leaves the payment-chain pass for the end of discover: the
\* synchronous lines 151-167 return or throw
TailRuns ==
  /\ pc = "scanReturn"
  /\ pass = "payment"
  /\ pc' \in {"returned", "failed"}

\* one run against a fixed snapshot with history for finitely many addresses
InitLive ==
  /\ InitOutside
  /\ account = [kind |-> "BasePaymentKeyStakeKey", networkId |-> 0]
  /\ lookAheadCount \in 0..LiveLookAhead
  /\ history \in SUBSET Encoded(account, Usable(LiveStakeUsed, LivePayUsed, {External}))
  /\ undetermined = {}
  /\ InitRun

\* an awaited promise that resolves is followed by the continuation of the
\* run, and synchronous code runs to its end
SpecLive == InitLive /\ [][NextLive]_vars /\ WF_vars(Resumed) /\ WF_pc(TailRuns)

\* ---- two discover runs against one provider ------------------------------------

\* the run that is executing, as it is kept while it is suspended at an await;
\* interleaved records that the two runs were both inside a pass when one of
\* them was resumed
Suspended(wasInterleaved) ==
  [pc |-> pc, lookAheadCount |-> lookAheadCount, firstAddresses |-> firstAddresses,
   firstInternalAddress |-> firstInternalAddress, pass |-> pass, currentGap |-> currentGap,
   currentIndex |-> currentIndex, addresses |-> addresses,
   externalAddress |-> externalAddress, internalAddress |-> internalAddress,
   externalHasTx |-> externalHasTx, stakeKeyAddresses |-> stakeKeyAddresses,
   paymentKeyAddresses |-> paymentKeyAddresses, uniqAddresses |-> uniqAddresses,
   result |-> result, error |-> error, trace |-> trace, interleaved |-> wasInterleaved]

\* a run that has just been called with the given lookAheadCount
CalledRun(count) ==
  [pc |-> "firstExternal", lookAheadCount |-> count, firstAddresses |-> <<>>,
   firstInternalAddress |-> NoAddress, pass |-> "none", currentGap |-> 0,
   currentIndex |-> 0, addresses |-> <<>>, externalAddress |-> NoAddress,
   internalAddress |-> NoAddress, externalHasTx |-> FALSE, stakeKeyAddresses |-> <<>>,
   paymentKeyAddresses |-> <<>>, uniqAddresses |-> <<>>, result |-> <<>>,
   error |-> NoError, trace |-> <<>>, interleaved |-> FALSE]

\* variant: currentGap and currentIndex live outside the invocation
ResumedCountersShared(saved, live) == live

\* lines 48-49: currentGap and currentIndex are locals of one discoverAddresses
\* invocation, so a resumed run finds its own
ResumedCounters(saved, live) == saved

\* variant: the addresses array lives outside the invocation
ResumedAddressesShared(saved, live) == live

\* line 50: addresses is a local of one discoverAddresses invocation
ResumedAddresses(saved, live) == saved

\* the awaited call of the other run completes first: that run is resumed and
\* the executing one stays suspended
Switch ==
  /\ other # NoRun
  /\ other.pc \notin {"returned", "failed"}
  /\ other' = Suspended(other.interleaved \/ (pass # "none" /\ other.pass # "none"))
  /\ pc' = other.pc
  /\ lookAheadCount' = other.lookAheadCount
  /\ firstAddresses' = other.firstAddresses
  /\ firstInternalAddress' = other.firstInternalAddress
  /\ pass' = other.pass
  /\ currentGap' = ResumedCounters(other, Suspended(FALSE)).currentGap
  /\ currentIndex' = ResumedCounters(other, Suspended(FALSE)).currentIndex
  /\ addresses' = ResumedAddresses(other, Suspended(FALSE)).addresses
  /\ externalAddress' = other.externalAddress
  /\ internalAddress' = other.internalAddress
  /\ externalHasTx' = other.externalHasTx
  /\ stakeKeyAddresses' = other.stakeKeyAddresses
  /\ paymentKeyAddresses' = other.paymentKeyAddresses
  /\ uniqAddresses' = other.uniqAddresses
  /\ result' = other.result
  /\ error' = other.error
  /\ trace' = other.trace
  /\ UNCHANGED <<account, history, undetermined, blockfrostClient, env, constructed, outcomes>>

NextTwo ==
  \/ FirstExternalDerived
  \/ FirstInternalDerived
  \/ FirstInternalHasTx
  \/ ScanExternalDerived
  \/ ScanInternalDerived
  \/ ScanExternalHasTx
  \/ ScanInternalHasTx
  \/ StakeScanReturn
  \/ PaymentScanReturn
  \/ Switch

\* Two runs, called one after the other before either is resumed, on the same
\* account and against one fixed provider snapshot; no call is rejected.
InitTwo ==
  /\ blockfrostClient = Undefined
  /\ env = NoEnv
  /\ constructed = <<>>
  /\ outcomes = <<>>
  /\ account = [kind |-> "BasePaymentKeyStakeKey", networkId |-> 0]
  /\ history \in SUBSET Encoded(account, Usable(TwoStakeUsed, TwoPayUsed, {External})
                                         \ {<<0, External, 0>>})
  /\ undetermined = {}
  /\ lookAheadCount \in {0, TwoLookAhead}
  /\ \E count \in {0, TwoLookAhead} :
       /\ lookAheadCount <= count
       /\ other = CalledRun(count)
  /\ InitRun

SpecTwo == InitTwo /\ [][NextTwo]_vars

\* discoverAddresses (lines 48-81) run without interruption against a snapshot
RECURSIVE ScanAlone(_, _, _, _, _, _, _)
ScanAlone(acct, snapshot, p, lookAhead, index, gap, found) ==
  IF ~(gap <= lookAhead) THEN found
  ELSE LET externalArgs == GetDeriveAddressArgs(p, index, External)
           internalArgs == GetDeriveAddressArgs(p, index, Internal)
           external == DeriveAddress(acct, externalArgs.paymentKeyDerivationPath,
                                     externalArgs.stakeKeyDerivationIndex)
           internal == DeriveAddress(acct, internalArgs.paymentKeyDerivationPath,
                                     internalArgs.stakeKeyDerivationIndex)
           externalFound == AddressHasTx(external, snapshot)
           internalFound == AddressHasTx(internal, snapshot)
       IN ScanAlone(acct, snapshot, p, lookAhead, index + 1,
                    IF externalFound \/ internalFound THEN 0 ELSE gap + 1,
                    found \o (IF externalFound THEN <<external>> ELSE <<>>)
                          \o (IF internalFound THEN <<internal>> ELSE <<>>))

\* discover (lines 116-168) run without interruption against a snapshot
DiscoverAlone(acct, snapshot, count) ==
  LET external == DeriveAddress(acct, [index |-> 0, type |-> External], 0)
      internal == DeriveAddress(acct, [index |-> 0, type |-> Internal], 0)
      first == IF AddressHasTx(internal, snapshot) THEN <<external, internal>>
                                                   ELSE <<external>>
      stakeChain == ScanAlone(acct, snapshot, "stake", STAKE_KEY_INDEX_LOOKAHEAD, 0, 0, <<>>)
      paymentChain == ScanAlone(acct, snapshot, "payment", count, 0, 0, <<>>)
      uniq == UniqBy(first \o stakeChain \o paymentChain)
  IN SortAddresses(uniq \o ProgTokenAddresses(uniq))


\* ---- the merge step on its own ------------------------------------------------------

\* the accounts of SpecMerge: base addresses on two networks, and enterprise
\* addresses, which encode no stake credential
MergeAccounts == {[kind |-> "BasePaymentKeyStakeKey", networkId |-> 0],
                  [kind |-> "BasePaymentKeyStakeKey", networkId |-> 1],
                  [kind |-> "EnterpriseKey", networkId |-> 0]}

\* the addresses the lists handed to the merge are made of
MergePool(acct) ==
  {DeriveAddress(acct, [index |-> p, type |-> External], s) : p \in 0..1, s \in 0..1}

\* the lists over pool of length at most n
ListsUpTo(pool, n) == UNION {[1..k -> pool] : k \in 0..n}

\* discover at line 151: the initial step and both passes are done, with any
\* lists of found addresses, repeated addresses included
InitMerge ==
  /\ InitOutside
  /\ account \in MergeAccounts
  /\ lookAheadCount = 0
  /\ history = {}
  /\ undetermined = {}
  /\ pc = "scanReturn"
  /\ pass = "payment"
  /\ firstInternalAddress = DeriveAddress(account, FirstInternalArgs.paymentKeyDerivationPath, 0)
  /\ firstAddresses \in
       {<<DeriveAddress(account, FirstExternalArgs.paymentKeyDerivationPath, 0)>>,
        <<DeriveAddress(account, FirstExternalArgs.paymentKeyDerivationPath, 0),
          firstInternalAddress>>}
  /\ stakeKeyAddresses \in ListsUpTo(MergePool(account), MergeLen)
  /\ addresses \in ListsUpTo(MergePool(account), MergeLen)
  /\ currentGap = 1
  /\ currentIndex = 1
  /\ externalAddress = NoAddress
  /\ internalAddress = NoAddress
  /\ externalHasTx = FALSE
  /\ paymentKeyAddresses = <<>>
  /\ uniqAddresses = <<>>
  /\ result = <<>>
  /\ error = NoError
  /\ trace = <<>>

NextMerge == PaymentScanReturn

SpecMerge == InitMerge /\ [][NextMerge]_vars


\* ---- BlockfrostClientFactory.ts -----------------------------------------------------

\* the values process.env holds for each variable; "" stands for an unset (or
\* empty) variable, which is falsy at lines 20, 30 and 33
EnvValues ==
  [BLOCKFROST_CUSTOM_BACKEND_URL |-> {"", "http://custom"},
   BLOCKFROST_API_KEY |-> {"", "key"},
   NETWORK |-> {"", "mainnet", "preprod", "nonet"}]

\* DEFAULT_BLOCKFROST_URLS[network]; "" stands for undefined
DEFAULT_BLOCKFROST_URLS(network) ==
  CASE network = "mainnet" -> "https://mainnet"
    [] network = "preprod" -> "https://preprod"
    [] OTHER -> ""

\* new BlockfrostClient(...): a fresh instance, told apart by id
NewBlockfrostClient(baseUrl, projectId, rateLimiter) ==
  [id |-> Len(constructed) + 1, baseUrl |-> baseUrl, projectId |-> projectId,
   rateLimiter |-> rateLimiter]

\* variant of line 17: the existing instance is not looked at
ExistingClientIgnored == FALSE

\* line 17
ExistingClient == blockfrostClient # Undefined

\* the test harness or the operator changes one environment variable
SetEnv ==
  /\ \E name \in DOMAIN EnvValues : \E value \in EnvValues[name] :
       /\ env[name] # value
       /\ env' = [env EXCEPT ![name] = value]
  /\ UNCHANGED <<blockfrostClient, constructed, outcomes, other>>
  /\ UNCHANGED <<account, lookAheadCount, history, undetermined, pc, firstAddresses,
                 firstInternalAddress, pass, currentGap, currentIndex, addresses,
                 externalAddress, internalAddress, externalHasTx, stakeKeyAddresses,
                 paymentKeyAddresses, uniqAddresses, result, error, trace>>

\* what one call does: the instance it leaves in the module variable, the
\* instance it returns (Undefined when it throws) and the error it throws
GetBlockfrostClientCall ==
  IF ExistingClient
    THEN [client |-> blockfrostClient, returned |-> blockfrostClient, error |-> "", made |-> FALSE]
  ELSE IF env.BLOCKFROST_CUSTOM_BACKEND_URL # ""
    THEN LET c == NewBlockfrostClient(env.BLOCKFROST_CUSTOM_BACKEND_URL, "", "passthrough")
         IN [client |-> c, returned |-> c, error |-> "", made |-> TRUE]
  ELSE IF env.BLOCKFROST_API_KEY = ""
    THEN [client |-> blockfrostClient, returned |-> Undefined, made |-> FALSE,
          error |-> "BLOCKFROST_API_KEY or BLOCKFROST_CUSTOM_BACKEND_URL environment variable is required"]
  ELSE IF env.NETWORK = ""
    THEN [client |-> blockfrostClient, returned |-> Undefined, made |-> FALSE,
          error |-> "NETWORK environment variable is required"]
  ELSE IF DEFAULT_BLOCKFROST_URLS(env.NETWORK) = ""
    THEN [client |-> blockfrostClient, returned |-> Undefined, made |-> FALSE,
          error |-> "Unsupported NETWORK for blockfrost"]
  ELSE LET c == NewBlockfrostClient(DEFAULT_BLOCKFROST_URLS(env.NETWORK),
                                    env.BLOCKFROST_API_KEY, "Bottleneck")
       IN [client |-> c, returned |-> c, error |-> "", made |-> TRUE]

\* getBlockfrostClient (lines 16-51)
GetBlockfrostClient ==
  /\ Len(outcomes) < MaxCalls
  /\ LET call == GetBlockfrostClientCall
     IN /\ blockfrostClient' = call.client
        /\ constructed' = IF call.made THEN Append(constructed, call.client) ELSE constructed
        /\ outcomes' = Append(outcomes, [returned |-> call.returned, error |-> call.error,
                                         after |-> call.client])
  /\ UNCHANGED <<env, other>>
  /\ UNCHANGED <<account, lookAheadCount, history, undetermined, pc, firstAddresses,
                 firstInternalAddress, pass, currentGap, currentIndex, addresses,
                 externalAddress, internalAddress, externalHasTx, stakeKeyAddresses,
                 paymentKeyAddresses, uniqAddresses, result, error, trace>>

\* the module is loaded; no discovery step is taken in this specification
InitBlockfrost ==
  /\ InitOutside
  /\ account = [kind |-> "BasePaymentKeyStakeKey", networkId |-> 0]
  /\ lookAheadCount = 0
  /\ history = {}
  /\ undetermined = {}
  /\ InitRun

NextBlockfrost == SetEnv \/ GetBlockfrostClient

SpecBlockfrost == InitBlockfrost /\ [][NextBlockfrost]_vars

\* ---- properties ------------------------------------------------------------------

Returned == pc = "returned"
Failed == pc = "failed"

\* the address at (paymentIndex = 0, External, stakeIndex = 0) and its Internal sibling
CanonicalAddress == DeriveAddress(account, FirstExternalArgs.paymentKeyDerivationPath, 0)
InternalSibling == DeriveAddress(account, FirstInternalArgs.paymentKeyDerivationPath, 0)

InList(list, a) == \E i \in 1..Len(list) : list[i] = a

\* a programmable entry carries the script hash as payment credential
IsProgrammable(a) == a.address.payment.type = "ScriptHash"

\* the usage queries of the log, and the rejected calls
IsQuery(e) == e.op = "transactionsByAddresses"
RejectedCalls == {i \in 1..Len(trace) : ~Ok(trace[i])}

\* C1: whenever discover returns, element 0 of the returned list is the address
\* derived at (0, External, 0), with index 0 and stake index 0, also when the
\* Internal sibling (same sort key) is in the list.
C1_FirstIsCanonical ==
  Returned =>
    /\ Len(result) > 0
    /\ result[1] = CanonicalAddress
    /\ result[1].type = External
    /\ result[1].index = 0
    /\ result[1].stakeKeyDerivationPath.index = 0

\* C1 witness: discover returned a list that also holds the Internal sibling.
C1_Witness ==
  /\ Returned
  /\ InList(result, InternalSibling)
  /\ CompareAddresses(InternalSibling, CanonicalAddress) = 0

\* C2: the returned list never holds two entries with the same encoded address
\* string, programmable entries included.
C2_NoDuplicateAddress ==
  Returned =>
    \A i, j \in 1..Len(result) : i # j => result[i].address # result[j].address

\* C3: discover is all-or-nothing.  A rejected call, or a payment credential
\* that cannot be extracted, makes discover reject with that error and return no
\* list; a list is returned only when every call succeeded, and it is the whole
\* merged list.
C3_AllOrNothing ==
  LET rejected == RejectedCalls
  IN /\ rejected # {} =>
          /\ Failed
          /\ rejected = {Len(trace)}
          /\ error = trace[Len(trace)].error
          /\ error # NoError
     /\ ~Returned => result = <<>>
     /\ Failed /\ rejected = {} =>
          /\ error.name = "Unsupported address type"
          /\ \E i \in 1..Len(uniqAddresses) :
               GetPaymentCredential(uniqAddresses[i].address) = NoCredential
     /\ Returned =>
          /\ rejected = {}
          /\ error = NoError
          /\ \A i \in 1..Len(uniqAddresses) :
               GetPaymentCredential(uniqAddresses[i].address) # NoCredential
          /\ uniqAddresses = UniqBy(firstAddresses \o stakeKeyAddresses \o paymentKeyAddresses)
          /\ \A i \in 1..Len(uniqAddresses) : InList(result, uniqAddresses[i])
          /\ Len(result) = 2 * Len(uniqAddresses)

\* C3 witness: a usage query was rejected after the scan had already found
\* addresses, and discover rejected with that error.
C3_Witness ==
  /\ Failed
  /\ error.name = "ProviderError"
  /\ Len(firstAddresses) = 2
  /\ Len(stakeKeyAddresses) > 0
  /\ Len(addresses) > 0

\* ---- the scan passes, read off the call log ----------------------------------------

LoopPcs == {"scanExternal", "scanInternal", "scanExternalHasTx", "scanInternalHasTx"}
ScanPcs == LoopPcs \cup {"scanReturn"}

Range(list) == {list[i] : i \in 1..Len(list)}

Max(S) == CHOOSE m \in S : \A n \in S : n <= m

\* the answered usage queries of pass p, in the order they were made
PassQueries(p) == SelectSeq(trace, LAMBDA e : IsQuery(e) /\ Ok(e) /\ e.pass = p)

\* the address a logged call is about
CallAddress(e) == DeriveAddress(account, e.path, e.stake)

\* the 0-based scan position a logged call of a pass belongs to
ScanPosition(e) == IF e.pass = "stake" THEN e.stake - 1 ELSE e.path.index - 1

\* the addresses of pass p whose query returned true, in query order, and those
\* whose query returned false
FoundSeq(p) ==
  LET hits == SelectSeq(PassQueries(p), LAMBDA e : e.hasTx)
  IN [i \in 1..Len(hits) |-> CallAddress(hits[i])]
Unused(p) == {CallAddress(e) : e \in {q \in Range(PassQueries(p)) : ~q.hasTx}}

\* of the answered queries qs of a pass: the positions queried, the positions
\* finished, and the number of positions up to and including the last hit
Probed(qs) == {ScanPosition(e) : e \in Range(qs)}
Completed(qs) == {ScanPosition(e) : e \in {q \in Range(qs) : q.path.type = Internal}}
LastHit(qs) == Max({ScanPosition(e) + 1 : e \in {q \in Range(qs) : q.hasTx}} \cup {0})

\* C4 (as stated): at every point of a pass and at its return, the list holds
\* exactly the probed addresses whose usage query returned true.
C4_ExactlyUsedAtEveryPoint ==
  pc \in ScanPcs =>
    /\ Range(addresses) \cap Unused(pass) = {}
    /\ Range(addresses) = Range(FoundSeq(pass))

\* C4 (amended): no address whose query returned false is ever in the list; at
\* the start of every position, at the return of the pass and in the list it
\* returned, the list is exactly the probed addresses whose query returned true;
\* while the Internal query of a position is pending, an External address of
\* that position whose query returned true is not in the list yet.
C4_ExactlyUsedBetweenPositions ==
  /\ pc \in ScanPcs =>
       LET found == FoundSeq(pass)
       IN /\ Range(addresses) \cap Unused(pass) = {}
          /\ pc # "scanInternalHasTx" => addresses = found
          /\ pc = "scanInternalHasTx" =>
               /\ ~externalHasTx => addresses = found
               /\ externalHasTx => /\ found = Append(addresses, externalAddress)
                                   /\ ~InList(addresses, externalAddress)
  /\ (pc = "scanExternal" /\ pass = "payment" /\ currentIndex = 0) =>
       stakeKeyAddresses = FoundSeq("stake")
  /\ Returned =>
       /\ stakeKeyAddresses = FoundSeq("stake")
       /\ paymentKeyAddresses = FoundSeq("payment")

\* C4 witness: a pass returned after probing used and unused addresses.
C4_Witness ==
  /\ pc = "scanReturn"
  /\ pass = "payment"
  /\ Len(addresses) >= 2
  /\ Unused("payment") # {}
  /\ Len(stakeKeyAddresses) >= 1

\* C5: a pass stops after exactly lookAheadCount + 1 consecutive positions with
\* no history on either kind, and not before: it probes h + lookAheadCount + 1
\* positions, h being the number of positions up to and including the last hit.
C5_StopsAfterGap ==
  pc \in ScanPcs =>
    LET qs == PassQueries(pass)
        h == LastHit(qs)
        n == PassLookAhead(pass)
    IN /\ pc = "scanReturn" =>
            /\ Probed(qs) = 0..(h + n)
            /\ Completed(qs) = Probed(qs)
            /\ Cardinality(Probed(qs)) = h + n + 1
            /\ currentIndex = h + n + 1
            /\ currentGap = n + 1
       /\ pc \in LoopPcs =>
            /\ Completed(qs) = 0..(currentIndex - 1)
            /\ Cardinality(Completed(qs)) - h <= n

\* C5 witness: the payment-chain pass returned with lookAheadCount = 0 after a hit.
C5_Witness ==
  /\ pc = "scanReturn"
  /\ pass = "payment"
  /\ lookAheadCount = 0
  /\ LastHit(PassQueries("payment")) = 2
  /\ currentIndex = 3

\* C6: the scan stops as soon as the gap count reaches lookAheadCount, i.e. no
\* further position is probed once the gap count has been raised to it.
C6_StopsWhenGapReachesLookAhead ==
  pc \in LoopPcs => (currentGap = 0 \/ currentGap < PassLookAhead(pass))

\* ---- the payment-chain pass against the snapshot ------------------------------------

\* the payment index, kind and stake index an organic encoded address was derived at
PaymentIndexOf(a) == a.payment.hash[3]
KindOf(a) == a.payment.hash[2]
StakeIndexOf(a) == a.stake.hash[3]

\* some address of payment index p (stake index 0) has history
PositionUsed(p) ==
  \E t \in {External, Internal} :
    DeriveAddress(account, [index |-> p, type |-> t], 0).address \in history

\* every run of consecutive unused payment indices within 1..p-1 has length <= n
GapsWithin(p, n) ==
  \A a \in 1..(p - 1) : \A b \in a..(p - 1) :
    (\A q \in a..b : ~PositionUsed(q)) => b - a + 1 <= n

\* the payment indices queried by the payment-chain pass
PaymentProbed == {e.path.index : e \in Range(PassQueries("payment"))}

\* C7: a used address at payment index p >= 1 (stake index 0) is in the result
\* iff every run of unused payment indices in 1..p-1 is at most lookAheadCount
\* long; with usage at 1, 2, 5 (and possibly 10) and lookAheadCount = 3 the pass
\* finds 1, 2 and 5, probes no payment index above 9 and does not find 10.
C7_FoundIffGapsWithin ==
  Returned =>
    /\ \A a \in history :
         (PaymentIndexOf(a) >= 1 /\ StakeIndexOf(a) = 0) =>
           LET g == DeriveAddress(account, [index |-> PaymentIndexOf(a), type |-> KindOf(a)], 0)
           IN /\ g.address = a
              /\ InList(result, g) <=> GapsWithin(PaymentIndexOf(a), lookAheadCount)
              /\ InList(paymentKeyAddresses, g) <=> InList(result, g)
    /\ (lookAheadCount = 3 /\ {p \in 1..9 : PositionUsed(p)} = {1, 2, 5}) =>
         /\ {g.index : g \in Range(paymentKeyAddresses)} = {1, 2, 5}
         /\ PaymentProbed = 1..9
         /\ \A i \in 1..Len(result) : IsProgrammable(result[i]) \/ result[i].index # 10

\* C7 witness: the run returned on the snapshot with usage at 1, 2, 5 and 10.
C7_Witness ==
  /\ Returned
  /\ lookAheadCount = 3
  /\ {p \in 1..10 : PositionUsed(p)} = {1, 2, 5, 10}

\* ---- the merged list ------------------------------------------------------------------

\* the organic and the programmable entries of a list, in list order
Organic(list) == SelectSeq(list, LAMBDA a : ~IsProgrammable(a))
Programmable(list) == SelectSeq(list, LAMBDA a : IsProgrammable(a))

\* entry q is the programmable entry of organic entry a
ProgrammableOf(q, a) ==
  /\ IsProgrammable(q)
  /\ q.address.stake = a.address.payment
  /\ q.address.networkId = a.networkId
  /\ q.type = a.type
  /\ q.networkId = a.networkId
  /\ q.stakeKeyDerivationPath = a.stakeKeyDerivationPath

\* C8: in a returned list every address of the deduplicated list has exactly one
\* programmable entry, the list is twice as long as the deduplicated list, and
\* every programmable entry has an index above that of every organic entry.
C8_OneProgrammablePerAddress ==
  Returned =>
    /\ Len(result) = 2 * Len(uniqAddresses)
    /\ Len(Programmable(result)) = Len(uniqAddresses)
    /\ Range(Organic(result)) = Range(uniqAddresses)
    /\ \A i \in 1..Len(uniqAddresses) :
         Cardinality({j \in 1..Len(result) : ProgrammableOf(result[j], uniqAddresses[i])}) = 1
    /\ \A i, j \in 1..Len(result) :
         (IsProgrammable(result[i]) /\ ~IsProgrammable(result[j])) =>
           result[i].index > result[j].index

\* C8 witness: a returned list with stake-chain and payment-chain addresses.
C8_Witness ==
  /\ Returned
  /\ Len(stakeKeyAddresses) >= 1
  /\ Len(paymentKeyAddresses) >= 2
  /\ Len(result) >= 8

\* C9: a returned list is ascending in (index, stakeKeyDerivationPath.index), and
\* its programmable entries come in the order of their originals in the
\* deduplicated list.
C9_SortedAndOrderKept ==
  Returned =>
    /\ \A i, j \in 1..Len(result) :
         i < j =>
           \/ result[i].index < result[j].index
           \/ /\ result[i].index = result[j].index
              /\ result[i].stakeKeyDerivationPath.index <= result[j].stakeKeyDerivationPath.index
    /\ Len(Programmable(result)) = Len(uniqAddresses)
    /\ \A i \in 1..Len(uniqAddresses) :
         ProgrammableOf(Programmable(result)[i], uniqAddresses[i])

\* C9 witness: a returned list holding the Internal sibling, a stake-chain and a
\* payment-chain address.
C9_Witness ==
  /\ Returned
  /\ Len(firstAddresses) = 2
  /\ Len(stakeKeyAddresses) >= 1
  /\ Len(paymentKeyAddresses) >= 1

\* ---- the initial step ------------------------------------------------------------------

\* the logged usage queries (answered or rejected) that ask about encoded address a
QueriesAbout(a) ==
  {i \in 1..Len(trace) :
     IsQuery(trace[i]) /\ \E k \in 1..Len(trace[i].request.addresses) :
                             trace[i].request.addresses[k] = a}

\* C10: the provider is never asked about the address (0, External, 0), which is
\* in the result all the same; the address (0, Internal, 0) is asked about
\* exactly once, and is in the result iff that query reported history.
C10_CanonicalNeverQueried ==
  LET aboutInternal == QueriesAbout(InternalSibling.address)
  IN /\ QueriesAbout(CanonicalAddress.address) = {}
     /\ Cardinality(aboutInternal) <= 1
     /\ pc \in ScanPcs \cup {"returned"} => Cardinality(aboutInternal) = 1
     /\ Returned =>
          /\ InList(result, CanonicalAddress)
          /\ \E i \in aboutInternal :
               /\ Ok(trace[i])
               /\ InList(result, InternalSibling) <=> trace[i].hasTx

\* C10 witness: a run returned without the Internal sibling, after both passes
\* found addresses.
C10_Witness ==
  /\ Returned
  /\ ~InList(result, InternalSibling)
  /\ Len(stakeKeyAddresses) >= 1
  /\ Len(paymentKeyAddresses) >= 1

\* ---- two runs ------------------------------------------------------------------------

\* the logged calls of the stake-chain pass, and of the payment-chain pass
StakeCalls(log) == SelectSeq(log, LAMBDA e : e.pass = "stake")
PaymentCalls(log) == SelectSeq(log, LAMBDA e : e.pass = "payment")

\* the stake indices a log shows to have been queried by the stake-chain pass
StakeProbed(log) == {e.stake : e \in {q \in Range(StakeCalls(log)) : IsQuery(q)}}

BothReturned == Returned /\ other # NoRun /\ other.pc = "returned"

\* C11: the stake-chain pass runs with lookahead 5 whatever lookAheadCount is:
\* two runs on one snapshot, with equal or different lookAheadCount, make the
\* same stake-chain calls, probe the same stake indices (6 past the last hit)
\* and find the same stake-chain addresses.
C11_StakePassIgnoresLookAhead ==
  (other # NoRun /\ pass = "payment" /\ other.pass = "payment") =>
    LET mine == StakeCalls(trace)
        theirs == StakeCalls(other.trace)
    IN /\ mine = theirs
       /\ StakeProbed(trace) = StakeProbed(other.trace)
       /\ stakeKeyAddresses = other.stakeKeyAddresses
       /\ StakeProbed(trace) =
            1..(LastHit(SelectSeq(mine, LAMBDA e : IsQuery(e))) + 5 + 1)

\* C11 witness: two returned runs with different lookAheadCount whose
\* payment-chain passes made different calls after the same stake-chain pass,
\* which found an address.
C11_Witness ==
  /\ BothReturned
  /\ lookAheadCount # other.lookAheadCount
  /\ Len(PaymentCalls(trace)) # Len(PaymentCalls(other.trace))
  /\ Len(stakeKeyAddresses) >= 1

\* C12: two runs with the same account, the same lookAheadCount and the same
\* provider snapshot make the same sequence of calls and return the same list.
C12_Deterministic ==
  (BothReturned /\ lookAheadCount = other.lookAheadCount) =>
    /\ trace = other.trace
    /\ result = other.result

\* C12 witness: two returned runs with the same lookAheadCount that found
\* stake-chain and payment-chain addresses.
C12_Witness ==
  /\ BothReturned
  /\ lookAheadCount = other.lookAheadCount
  /\ Len(stakeKeyAddresses) >= 1
  /\ Len(paymentKeyAddresses) >= 1

\* C16: however two runs are interleaved at their awaits, each returns the list
\* it returns when it runs alone against the snapshot, and inside a pass the
\* index and the gap of a run are those its own calls determine.
C16_Reentrant ==
  /\ pc \in LoopPcs =>
       LET mine == SelectSeq(trace, LAMBDA e : e.pass = pass)
           finished == SelectSeq(mine, LAMBDA e : IsQuery(e) /\ ScanPosition(e) < currentIndex)
       IN /\ currentIndex = Len(mine) \div 4
          /\ currentGap = currentIndex - LastHit(finished)
  /\ Returned => result = DiscoverAlone(account, history, lookAheadCount)
  /\ (other # NoRun /\ other.pc = "returned") =>
       other.result = DiscoverAlone(account, history, other.lookAheadCount)

\* C16 witness: two runs returned after one was resumed while both were inside
\* a pass, and they found addresses.
C16_Witness ==
  /\ BothReturned
  /\ other.interleaved
  /\ Len(result) >= 6
  /\ lookAheadCount # other.lookAheadCount

\* ---- the merge step ---------------------------------------------------------------------

\* the positions of a list that hold the first occurrence of their address
FirstSeen(list) ==
  {i \in 1..Len(list) : \A j \in 1..(i - 1) : list[j].address # list[i].address}

\* the k-th smallest element of a set of numbers
Nth(S, k) == CHOOSE i \in S : Cardinality({j \in S : j < i}) = k - 1

\* C13: the merge concatenates the initial addresses, the stake-chain results and
\* the payment-chain results in that order and keeps the first occurrence of
\* each encoded address, in first-seen order; an address found by both passes is
\* once among the organic entries of the returned list.
C13_MergeKeepsFirstSeen ==
  Returned =>
    LET list == firstAddresses \o stakeKeyAddresses \o paymentKeyAddresses
        kept == FirstSeen(list)
    IN /\ Len(uniqAddresses) = Cardinality(kept)
       /\ \A k \in 1..Len(uniqAddresses) : uniqAddresses[k] = list[Nth(kept, k)]
       /\ \A i \in 1..Len(list) :
            Cardinality({j \in 1..Len(result) :
                           ~IsProgrammable(result[j]) /\ result[j].address = list[i].address}) = 1

\* C13 witness: the merge returned for lists in which both passes had found one
\* and the same encoded address.
C13_Witness ==
  /\ Returned
  /\ \E i \in 1..Len(stakeKeyAddresses) : \E j \in 1..Len(paymentKeyAddresses) :
       /\ stakeKeyAddresses[i].address = paymentKeyAddresses[j].address
       /\ \A k \in 1..Len(firstAddresses) :
            firstAddresses[k].address # stakeKeyAddresses[i].address
  /\ Len(uniqAddresses) < Len(firstAddresses) + Len(stakeKeyAddresses) + Len(paymentKeyAddresses)

\* the programmable entry made for position i of the deduplicated list
ProgrammableAt(i) ==
  CHOOSE q \in Range(result) :
    IsProgrammable(q) /\ q.index = uniqAddresses[Len(uniqAddresses)].index + i

\* C15: the programmable address has the fixed script hash as payment
\* credential and the payment credential of its input as stake credential, on
\* the given network; it is determined by the input's payment credential and
\* the network, and inputs with different payment credentials give different
\* outputs, also when their stake credentials are the same.
C15_CredentialSubstitution ==
  Returned =>
    /\ \A i \in 1..Len(uniqAddresses) :
         LET q == ProgrammableAt(i).address
         IN /\ q.kind = "BasePaymentScriptStakeKey"
            /\ q.payment = [type |-> "ScriptHash", hash |-> ScriptHash]
            /\ q.stake = uniqAddresses[i].address.payment
            /\ q.networkId = uniqAddresses[i].networkId
    /\ \A i, j \in 1..Len(uniqAddresses) :
         /\ (uniqAddresses[i].address.payment # uniqAddresses[j].address.payment) =>
              ProgrammableAt(i).address # ProgrammableAt(j).address
         /\ (uniqAddresses[i].address.payment = uniqAddresses[j].address.payment) =>
              ProgrammableAt(i).address = ProgrammableAt(j).address

\* C15 witness: programmable addresses were made, on network 1, for two inputs
\* with the same stake credential and different payment credentials.
C15_Witness ==
  /\ Returned
  /\ account.networkId = 1
  /\ \E i, j \in 1..Len(uniqAddresses) :
       /\ uniqAddresses[i].address.stake = uniqAddresses[j].address.stake
       /\ uniqAddresses[i].address.payment # uniqAddresses[j].address.payment
       /\ uniqAddresses[i].address.stake # uniqAddresses[i].address.payment

\* ---- the Blockfrost client singleton -----------------------------------------------------

\* the calls that returned, and the calls that threw
ReturningCalls == {i \in 1..Len(outcomes) : outcomes[i].error = ""}
ThrowingCalls == {i \in 1..Len(outcomes) : outcomes[i].error # ""}

\* C17: every call of getBlockfrostClient that returns gives the instance made
\* by the first successful call, at most one BlockfrostClient is ever
\* constructed, and a call that throws leaves the singleton unset.
C17_Singleton ==
  /\ Len(constructed) <= 1
  /\ \A i \in ReturningCalls :
       /\ outcomes[i].returned # Undefined
       /\ outcomes[i].returned = outcomes[Nth(ReturningCalls, 1)].returned
       /\ outcomes[i].returned = constructed[1]
       /\ outcomes[i].after = outcomes[i].returned
  /\ \A i \in ThrowingCalls :
       /\ outcomes[i].returned = Undefined
       /\ outcomes[i].after = Undefined
  /\ blockfrostClient = IF constructed = <<>> THEN Undefined ELSE constructed[1]

\* C17 witness: a call threw, the environment was changed, a call made the
\* instance from the hosted configuration, the custom URL was set afterwards
\* and the next call returned again.
C17_Witness ==
  /\ Len(outcomes) = 3
  /\ outcomes[1].error # ""
  /\ outcomes[2].error = ""
  /\ outcomes[3].error = ""
  /\ outcomes[2].returned.rateLimiter = "Bottleneck"
  /\ env.BLOCKFROST_CUSTOM_BACKEND_URL # ""

\* ---- no usage, no lookahead -------------------------------------------------------------

\* the provider reported no history, except possibly for the Internal sibling
NoUsageReported == history \subseteq {InternalSibling.address}

\* C14: with lookAheadCount = 0 and no usage anywhere, discover returns the
\* (0, External, 0) address, its Internal sibling iff that one is used, and
\* their programmable entries, 2 or 4 entries in all; the stake-chain pass has
\* still probed its fixed lookahead, the payment-chain pass one position.
C14_NoUsageNoLookAhead ==
  (Returned /\ lookAheadCount = 0 /\ NoUsageReported) =>
    LET siblingUsed == InternalSibling.address \in history
    IN /\ uniqAddresses = IF siblingUsed THEN <<CanonicalAddress, InternalSibling>>
                                         ELSE <<CanonicalAddress>>
       /\ Organic(result) = uniqAddresses
       /\ Len(result) = IF siblingUsed THEN 4 ELSE 2
       /\ Len(Programmable(result)) = Len(uniqAddresses)
       /\ \A i \in 1..Len(uniqAddresses) :
            ProgrammableOf(Programmable(result)[i], uniqAddresses[i])
       /\ StakeProbed(trace) = 1..(STAKE_KEY_INDEX_LOOKAHEAD + 1)
       /\ PaymentProbed = {1}

\* C14 witness: discover returned two entries for lookAheadCount = 0 after the
\* provider had reported no history for every address asked about.
C14_Witness ==
  /\ Returned
  /\ lookAheadCount = 0
  /\ history = {}
  /\ Len(result) = 2
  /\ \E i \in 1..Len(trace) : IsQuery(trace[i]) /\ trace[i].pass = "stake" /\ trace[i].stake = 6

\* ---- the indices of the programmable entries --------------------------------------------

\* C18: the programmable entry of the address at 1-based position k of the
\* deduplicated list has index M + k, M being the largest index in the
\* deduplicated list; the index of its last element is that largest index.
C18_ProgrammableIndex ==
  Returned =>
    LET M == Max({uniqAddresses[i].index : i \in 1..Len(uniqAddresses)})
        prog == Programmable(result)
    IN /\ uniqAddresses[Len(uniqAddresses)].index = M
       /\ Len(prog) = Len(uniqAddresses)
       /\ \A k \in 1..Len(uniqAddresses) :
            /\ ProgrammableOf(prog[k], uniqAddresses[k])
            /\ prog[k].index = M + k

\* C18 witness: a returned list whose deduplicated list holds the Internal
\* sibling, a stake-chain address and payment-chain addresses up to index 2.
C18_Witness ==
  /\ Returned
  /\ Len(firstAddresses) = 2
  /\ Len(stakeKeyAddresses) >= 1
  /\ Len(paymentKeyAddresses) >= 1
  /\ uniqAddresses[Len(uniqAddresses)].index = 2

\* ---- the order of the calls -------------------------------------------------------------

\* the calls logged before the first pass
FirstCalls(log) == SelectSeq(log, LAMBDA e : e.pass = "none")

\* the j-th call of pass p is the call the loop body makes at that point:
\* derive External, derive Internal, query External, query Internal of position
\* (j - 1) \div 4
InLoopOrder(e, p, j) ==
  LET position == (j - 1) \div 4
      slot == (j - 1) % 4
  IN /\ e.op = IF slot < 2 THEN "deriveAddress" ELSE "transactionsByAddresses"
     /\ e.path.type = IF slot % 2 = 0 THEN External ELSE Internal
     /\ e.path.index = IF p = "stake" THEN 0 ELSE position + 1
     /\ e.stake = IF p = "stake" THEN position + 1 ELSE 0

\* the number of calls position currentIndex has made when control is at pc
CallsMadeAt(at) ==
  CASE at = "scanExternal" -> 0
    [] at = "scanInternal" -> 1
    [] at = "scanExternalHasTx" -> 2
    [] at = "scanInternalHasTx" -> 3

\* C19: the calls of the run are the three of the initial step, then those of
\* the stake-chain pass, then those of the payment-chain pass; within a pass
\* they come position by position as derive External, derive Internal, query
\* External, query Internal; the gap counter reflects finished positions only,
\* and no call of the next position is made before it is updated.
C19_CallOrder ==
  LET first == FirstCalls(trace)
      stake == StakeCalls(trace)
      payment == PaymentCalls(trace)
  IN /\ trace = first \o stake \o payment
     /\ Len(first) <= 3
     /\ \A j \in 1..Len(first) :
          /\ first[j].op = IF j < 3 THEN "deriveAddress" ELSE "transactionsByAddresses"
          /\ first[j].path = [index |-> 0, type |-> IF j = 1 THEN External ELSE Internal]
          /\ first[j].stake = 0
     /\ stake # <<>> => (Len(first) = 3 /\ \A j \in 1..3 : Ok(first[j]))
     /\ payment # <<>> => (Len(stake) % 4 = 0 /\ \A j \in 1..Len(stake) : Ok(stake[j]))
     /\ \A j \in 1..Len(stake) : InLoopOrder(stake[j], "stake", j)
     /\ \A j \in 1..Len(payment) : InLoopOrder(payment[j], "payment", j)
     /\ pc \in LoopPcs =>
          LET mine == IF pass = "stake" THEN stake ELSE payment
              finished == SelectSeq(mine, LAMBDA e : IsQuery(e) /\ ScanPosition(e) < currentIndex)
          IN /\ Len(mine) = 4 * currentIndex + CallsMadeAt(pc)
             /\ currentGap = currentIndex - LastHit(finished)

\* C19 witness: the payment-chain pass, after a position without history, has
\* been told that the External address of the next position has history and is
\* waiting for the answer about the Internal one; the gap is still 1.
C19_Witness ==
  /\ pc = "scanInternalHasTx"
  /\ pass = "payment"
  /\ externalHasTx
  /\ currentGap = 1
  /\ currentIndex = 1
  /\ Len(StakeCalls(trace)) >= 24

\* ---- the usage query ---------------------------------------------------------------------

\* C20: every provider call is a transactionsByAddresses query for one address
\* with limit 1 and startAt 0, and it counts the address as used exactly when
\* the totalResultCount of the answer is above 0.
C20_SingleAddressQuery ==
  \A i \in 1..Len(trace) :
    LET e == trace[i]
    IN /\ e.op \in {"deriveAddress", "transactionsByAddresses"}
       /\ IsQuery(e) =>
            /\ Len(e.request.addresses) = 1
            /\ e.request.addresses[1] = CallAddress(e).address
            /\ e.request.pagination = [limit |-> 1, startAt |-> 0]
            /\ Ok(e) =>
                 (e.hasTx <=> TransactionsByAddresses(history, e.request).totalResultCount > 0)

\* C20 witness: the provider has answered one query with a count of 0 and
\* another with a count above 0.
C20_Witness ==
  /\ \E i \in 1..Len(trace) :
       /\ IsQuery(trace[i]) /\ Ok(trace[i]) /\ trace[i].hasTx
       /\ TransactionsByAddresses(history, trace[i].request).totalResultCount = 1
  /\ \E i \in 1..Len(trace) :
       /\ IsQuery(trace[i]) /\ Ok(trace[i]) /\ ~trace[i].hasTx
       /\ TransactionsByAddresses(history, trace[i].request).totalResultCount = 0

\* ---- no repeated work --------------------------------------------------------------------

\* the (paymentIndex, type, stakeIndex) triple a logged call is about
Triple(e) == <<e.path.index, e.path.type, e.stake>>

\* C21: in one run no triple is derived twice and no address is queried twice;
\* the initial step is about (0, *, 0), the stake-chain pass about payment
\* index 0 and stake indices from 1, the payment-chain pass about payment
\* indices from 1 and stake index 0; a rejected call is the last call of the run.
C21_NoRepeatedWork ==
  LET derived == SelectSeq(trace, LAMBDA e : ~IsQuery(e))
      queried == SelectSeq(trace, LAMBDA e : IsQuery(e))
  IN /\ Cardinality({Triple(derived[i]) : i \in 1..Len(derived)}) = Len(derived)
     /\ Cardinality({Triple(queried[i]) : i \in 1..Len(queried)}) = Len(queried)
     /\ Cardinality({queried[i].request.addresses[1] : i \in 1..Len(queried)}) = Len(queried)
     /\ \A i \in 1..Len(trace) :
          LET e == trace[i]
          IN /\ e.pass = "none" => (e.path.index = 0 /\ e.stake = 0)
             /\ e.pass = "stake" => (e.path.index = 0 /\ e.stake >= 1)
             /\ e.pass = "payment" => (e.path.index >= 1 /\ e.stake = 0)
             /\ ~Ok(e) => (i = Len(trace) /\ Failed)

\* C21 witness: a query of the payment-chain pass was rejected after the
\* initial step and a whole stake-chain pass, and the run has failed.
C21_Witness ==
  /\ Failed
  /\ trace # <<>>
  /\ ~Ok(trace[Len(trace)])
  /\ IsQuery(trace[Len(trace)])
  /\ trace[Len(trace)].pass = "payment"
  /\ Len(StakeCalls(trace)) >= 24

\* ---- termination -------------------------------------------------------------------------

\* the provider holds history for every payment index it may hold history for
EveryPositionUsed == \A p \in 1..LivePayUsed : PositionUsed(p)

\* C22: when no call is rejected, the stake-chain pass returns and the run
\* returns; the payment-chain pass starts a position only if every run of unused
\* positions before it is at most lookAheadCount long, returns only after more
\* than lookAheadCount unused positions in a row, and against a provider with
\* history at every position it is still running past the last such position.
C22_Terminates ==
  /\ <>Returned
  /\ (pass = "stake") ~> (pass = "payment")
  /\ []((pass = "payment" /\ pc = "scanExternal") =>
          GapsWithin(currentIndex + 1, lookAheadCount))
  /\ []((pass = "payment" /\ pc = "scanReturn") =>
          /\ currentIndex > lookAheadCount
          /\ \A p \in (currentIndex - lookAheadCount)..currentIndex : ~PositionUsed(p)
          /\ EveryPositionUsed => currentIndex > LivePayUsed)

\* C22 witness: the run has returned against a provider with history at every
\* payment index up to the bound, after the pass went lookAheadCount + 1 past it.
C22_Witness ==
  /\ Returned
  /\ EveryPositionUsed
  /\ lookAheadCount >= 1
  /\ currentIndex = LivePayUsed + lookAheadCount + 1
  /\ Len(paymentKeyAddresses) = LivePayUsed

====
